---- MODULE Spec2Model ----
(***************************************************************************)
(* Voice-session lifecycle and audio-preparation pipeline of MusicBotik    *)
(* (src/core/music.py, src/core/client.py), with the login, logout and     *)
(* authorization check of its web API (src/web/server.py).                 *)
(*                                                                         *)
(* The Telegram client is created with its default update dispatch         *)
(* (src/core/client.py:71-80): every incoming message runs its handler as  *)
(* a task of its own on one asyncio event loop.  A handler runs until it   *)
(* awaits something that really suspends (a network call of the client or  *)
(* of the voice transport); another handler may run only then.  Each       *)
(* action below is one such run of one handler, from one suspension point  *)
(* to the next.  download_audio and convert_audio are declared async but   *)
(* await nothing: the download and the ffmpeg run block the event loop.    *)
(* Their duration is modelled by the variable busy, which names the task   *)
(* that holds the loop; while it is set no other handler takes a step.     *)
(***************************************************************************)
EXTENDS Integers, FiniteSets, Sequences, TLC

\* ---------------------------------------------------------------- bounds
NumChats == 2
MaxTasks == 2
MaxCmds == 3
MaxSigs == 2
MaxSetups == 2
NumSolo == 1

Chats == 1..NumChats
Tasks == 1..MaxTasks

\* ----------------------------------------------------------------- state
VARIABLES
  group_calls,  \* MusicManager.group_calls: chat -> call object, or NoCall
  raw,          \* the file "<chat_id>.raw" of each chat
  dl,           \* the file data/downloads/ytdl_out.mp3 (shared by all chats)
  attFiles,     \* attachment files written by reply.download_media()
  task,         \* the handler invocations in flight, by slot
  busy,         \* the task that holds the event loop in a blocking call, or 0
  issued,       \* number of commands received so far
  ev,           \* what the step just taken did (NoEv: nothing to report)
  bot,          \* MusicUserbot: its client, flags and registered handlers
  disc,         \* the disconnect() in progress, if any
  web           \* the last request of the web API and its response status

vars == <<group_calls, raw, dl, attFiles, task, busy, issued, ev, bot, disc, web>>

\* A call object: obj is its identity (the number of the join command that
\* created it), started whether start() has succeeded on it, input the number
\* of the play command whose artifact was assigned to input_filename (0: unset),
\* stops the number of stop() calls made on it, mute the argument of the last
\* set_is_mute call that returned, ctl the last playout call that returned
\* since input_filename was last assigned.
NoCall == [obj |-> 0, started |-> FALSE, input |-> 0, stops |-> 0,
           mute |-> FALSE, ctl |-> "none"]

\* A file: cmd is the number of the play command that wrote it (0: the file
\* does not exist), whole whether it was written to the end.
NoFile == [cmd |-> 0, whole |-> FALSE]

\* What a play found when its pipeline began: the artifact of the chat, its
\* transport input and, for a play of a URL, the download output.
NoSnap == [raw |-> NoFile, input |-> 0, dl |-> 0]

Free == [op |-> "free", chat |-> 0, cmd |-> 0, pc |-> "none", kind |-> "none",
         obj |-> 0, snap |-> NoSnap]

\* The membership test "chat_id in self.group_calls".
Joined(c) == group_calls[c] # NoCall

\* ------------------------------------------------------ session states
\* The session states of the design, read off the program's state: the code
\* keeps no state field.
TasksAt(c, pcs) == {t \in Tasks : task[t].chat = c /\ task[t].pc \in pcs}

PipelinePcs == {"downloading", "convmsg", "fetching", "transcoding"}

SessionState(c) ==
  IF TasksAt(c, {"stopping"}) # {} THEN "Leaving"
  ELSE IF TasksAt(c, {"starting"}) # {} THEN "Joining"
  ELSE IF ~Joined(c) \/ ~group_calls[c].started THEN "Idle"
  ELSE IF TasksAt(c, PipelinePcs) # {} THEN "Preparing"
  ELSE IF group_calls[c].input = 0 \/ group_calls[c].ctl = "stop" THEN "Active"
  ELSE IF group_calls[c].ctl = "pause" THEN "Paused"
  ELSE "Playing"

\* ---------------------------------------------------------------- events
\* What a step reports: the command (op, chat, cmd), its result res, the
\* session state st the chat was in when the step began, and what the
\* command found (snap, prev).
NoEv == [op |-> "none", chat |-> 0, cmd |-> 0, res |-> "none", snap |-> NoSnap,
         prev |-> 0, st |-> "none"]

Event(op, c, n, res, snap, prev) ==
  [op |-> op, chat |-> c, cmd |-> n, res |-> res, snap |-> snap, prev |-> prev,
   st |-> SessionState(c)]

\* "except Exception as e: ... return False" (return None in
\* shazam_recognize): the result of an operation in which an adapter raised.
OnExceptionEscapes(reason) == "raised"

OnException(reason) == reason

\* MusicUserbot once main() has started it with a saved, authorized session
\* (src/run.py:62-71): the client is connected, start() has set
\* is_authenticated, created the MusicManager and registered the handlers.
\* client: self.client is set; connected: client.is_connected();
\* authenticated: self.is_authenticated; pending: self.pending_code_hash is
\* set; handlers: the number of _setup_handlers() calls on self.client;
\* logins: the number of sign-ins that verify_code has completed.
Started == [client |-> TRUE, connected |-> TRUE, authenticated |-> TRUE,
            pending |-> FALSE, handlers |-> 1, logins |-> 0]

\* No disconnect() is running.  keys: the chats its loop has still to leave,
\* the one whose stop() is awaited first; found: the number of chats that
\* were in group_calls when it began; allok: no stop() has raised and no
\* entry was missing at its del.
NoDisc == [pc |-> "idle", keys |-> <<>>, found |-> 0, allok |-> TRUE]

\* A request header that may be absent.
NoHeader == [present |-> FALSE, value |-> ""]

\* turn tells a request from the one before it.
NoRequest == [route |-> "none", hdr |-> NoHeader, status |-> 0, turn |-> 0]

Init ==
  /\ bot = Started
  /\ disc = NoDisc
  /\ web = NoRequest
  /\ group_calls = [c \in Chats |-> NoCall]
  /\ raw = [c \in Chats |-> NoFile]
  /\ dl = 0
  /\ attFiles = {}
  /\ task = [t \in Tasks |-> Free]
  /\ busy = 0
  /\ issued = 0
  /\ ev = NoEv

\* ------------------------------------------------------- command dispatch
HasFreeSlot == \E t \in Tasks : task[t].op = "free"

FreeSlot == CHOOSE t \in Tasks :
              /\ task[t].op = "free"
              /\ \A u \in Tasks : u < t => task[u].op # "free"

\* A new message can be dispatched to its handler.
\* The handlers are registered once: the runs in which _setup_handlers() has
\* registered them again are covered by MessageArrives only.
Listening == bot.connected /\ bot.handlers = 1

CanReceiveWhileBusy == Listening /\ issued < MaxCmds /\ HasFreeSlot

CanReceive == Listening /\ busy = 0 /\ issued < MaxCmds /\ HasFreeSlot

\* A suspended handler can be resumed.
CanResumeWhileBusy(t, pc) == task[t].pc = pc

CanResume(t, pc) == busy = 0 /\ task[t].pc = pc

Spawn(op, c, pc, kind, obj) ==
  task' = [task EXCEPT ![FreeSlot] =
             [op |-> op, chat |-> c, cmd |-> issued + 1, pc |-> pc,
              kind |-> kind, obj |-> obj, snap |-> NoSnap]]

\* --------------------------------------------------------------- join
\* _get_call: the entry of the chat after the call, given whether the
\* factory could build a call object.
GetCallAlwaysNew(c, n) == [NoCall EXCEPT !.obj = n]

GetCall(c, n) ==
  IF group_calls[c] = NoCall
    THEN [NoCall EXCEPT !.obj = n]
    ELSE group_calls[c]

\* join_handler up to "await self.group_calls[chat_id].start(chat_id)".
JoinBegin(c) ==
  /\ CanReceive
  /\ issued' = issued + 1
  /\ \E createOk \in BOOLEAN :
       IF group_calls[c] = NoCall /\ ~createOk
         THEN /\ ev' = Event("join", c, issued + 1, OnException("fail"), NoSnap, 0)
              /\ UNCHANGED <<group_calls, task>>
         ELSE /\ group_calls' = [group_calls EXCEPT ![c] = GetCall(c, issued + 1)]
              /\ Spawn("join", c, "starting", "none", GetCall(c, issued + 1).obj)
              /\ ev' = NoEv
  /\ UNCHANGED <<raw, dl, attFiles, busy>>
  /\ UNCHANGED <<bot, disc, web>>

\* The registry after a join whose start() raised.
JoinFailed(c) == group_calls

\* start() returns or raises; join_voice_chat returns True or False.
JoinStarted(t) ==
  /\ CanResume(t, "starting")
  /\ LET c == task[t].chat IN
     \E ok \in BOOLEAN :
       /\ group_calls' =
            IF ok
              THEN IF group_calls[c].obj = task[t].obj
                     THEN [group_calls EXCEPT ![c].started = TRUE]
                     ELSE group_calls
              ELSE JoinFailed(c)
       /\ ev' = Event("join", c, task[t].cmd, IF ok THEN "ok" ELSE OnException("fail"),
                      NoSnap, task[t].obj)
  /\ task' = [task EXCEPT ![t] = Free]
  /\ UNCHANGED <<raw, dl, attFiles, busy, issued>>
  /\ UNCHANGED <<bot, disc, web>>

\* --------------------------------------------------------------- leave
\* leave_handler up to "await self.group_calls[chat_id].stop()".
LeaveBegin(c) ==
  /\ CanReceive
  /\ issued' = issued + 1
  /\ IF group_calls[c] = NoCall
       THEN /\ ev' = Event("leave", c, issued + 1, "fail", NoSnap, 0)
            /\ UNCHANGED <<task, group_calls>>
       ELSE /\ Spawn("leave", c, "stopping", "none", group_calls[c].obj)
            /\ group_calls' = [group_calls EXCEPT ![c].stops = @ + 1]
            /\ ev' = NoEv
  /\ UNCHANGED <<raw, dl, attFiles, busy>>
  /\ UNCHANGED <<bot, disc, web>>

\* stop() returns or raises; then del group_calls[chat_id] (a KeyError when
\* another leave removed the entry meanwhile) and the removal of the artifact.
LeaveStopped(t) ==
  /\ CanResume(t, "stopping")
  /\ LET c == task[t].chat IN
     \E ok \in BOOLEAN :
       IF ok /\ group_calls[c] # NoCall
         THEN /\ group_calls' = [group_calls EXCEPT ![c] = NoCall]
              /\ raw' = [raw EXCEPT ![c] = NoFile]
              /\ ev' = Event("leave", c, task[t].cmd, "ok", NoSnap, task[t].obj)
         ELSE /\ ev' = Event("leave", c, task[t].cmd,
                             OnException(IF ok THEN "keyerror" ELSE "fail"),
                             NoSnap, task[t].obj)
              /\ UNCHANGED <<group_calls, raw>>
  /\ task' = [task EXCEPT ![t] = Free]
  /\ UNCHANGED <<dl, attFiles, busy, issued>>
  /\ UNCHANGED <<bot, disc, web>>

\* ---------------------------------------------------------------- play
\* play_handler from the message to its first suspension: a reply to an audio
\* message is fetched first (await event.get_reply_message()); a message that
\* replies to nothing reaches the check at once.
PlayBeginOf(c, kinds) ==
  /\ CanReceive
  /\ issued' = issued + 1
  /\ \E kind \in kinds :
       IF kind = "file"
         THEN /\ Spawn("play", c, "reply", kind, 0)
              /\ ev' = NoEv
         ELSE IF Joined(c)
           THEN /\ Spawn("play", c, "notify", kind, 0)
                /\ ev' = NoEv
           ELSE /\ ev' = Event("play", c, issued + 1, "notjoined", NoSnap, 0)
                /\ UNCHANGED task
  /\ UNCHANGED <<group_calls, raw, dl, attFiles, busy>>
  /\ UNCHANGED <<bot, disc, web>>

\* A play command: with a URL, or as a reply to an audio message.
PlayBegin(c) == PlayBeginOf(c, {"url", "file"})

\* The reply has arrived: the check, then "await event.respond(...)".
PlayCheck(t) ==
  /\ CanResume(t, "reply")
  /\ IF Joined(task[t].chat)
       THEN /\ task' = [task EXCEPT ![t].pc = "notify"]
            /\ ev' = NoEv
       ELSE /\ task' = [task EXCEPT ![t] = Free]
            /\ ev' = Event("play", task[t].chat, task[t].cmd, "notjoined", NoSnap, 0)
  /\ UNCHANGED <<group_calls, raw, dl, attFiles, busy, issued>>
  /\ UNCHANGED <<bot, disc, web>>

\* The respond and edit messages are sent.  A reply to audio: the download of
\* the attachment starts (await reply.download_media()).
PlayDownloadStart(t) ==
  /\ CanResume(t, "notify")
  /\ task[t].kind = "file"
  /\ task' = [task EXCEPT ![t].pc = "downloading"]
  /\ ev' = Event("download", task[t].chat, task[t].cmd, "start", NoSnap, 0)
  /\ UNCHANGED <<group_calls, raw, dl, attFiles, busy, issued>>
  /\ UNCHANGED <<bot, disc, web>>

\* The attachment is on disk, or download_media raised.
PlayDownloadDone(t) ==
  /\ CanResume(t, "downloading")
  /\ \E ok \in BOOLEAN :
       IF ok
         THEN /\ attFiles' = attFiles \cup {task[t].cmd}
              /\ task' = [task EXCEPT ![t].pc = "convmsg"]
              /\ ev' = NoEv
         ELSE /\ task' = [task EXCEPT ![t] = Free]
              /\ ev' = Event("play", task[t].chat, task[t].cmd, "error", NoSnap, 0)
              /\ UNCHANGED attFiles
  /\ UNCHANGED <<group_calls, raw, dl, busy, issued>>
  /\ UNCHANGED <<bot, disc, web>>

\* The artifact file once convert_audio has removed the old one and ffmpeg
\* has begun to write.
ConvertStartKeepsOld(c, n) == raw[c]

ConvertStart(c, n) == [cmd |-> n, whole |-> FALSE]

\* play_from_file up to the ffmpeg run: the check, then convert_audio removes
\* the old artifact and starts ffmpeg.
PlayFromFile(t) ==
  /\ CanResume(t, "convmsg")
  /\ LET c == task[t].chat IN
     IF Joined(c)
       THEN /\ raw' = [raw EXCEPT ![c] = ConvertStart(c, task[t].cmd)]
            /\ task' = [task EXCEPT ![t].pc = "transcoding",
                                    ![t].obj = group_calls[c].obj,
                                    ![t].snap = [raw |-> raw[c],
                                                 input |-> group_calls[c].input,
                                                 dl |-> 0]]
            /\ busy' = t
            /\ ev' = NoEv
       ELSE /\ task' = [task EXCEPT ![t] = Free]
            /\ ev' = Event("play", c, task[t].cmd, "rejected", NoSnap, 0)
            /\ UNCHANGED <<raw, busy>>
  /\ UNCHANGED <<group_calls, dl, attFiles, issued>>
  /\ UNCHANGED <<bot, disc, web>>

\* "for file in self.downloads_dir.glob("ytdl_out.*"): file.unlink()": the
\* download output d of earlier runs, once download_audio has cleaned up.
CleanDownloadsKeeps(d) == d

CleanDownloads(d) == 0

\* play_audio up to the yt-dlp run: the check, then download_audio removes the
\* earlier download output and starts the download.
PlayAudio(t) ==
  /\ CanResume(t, "notify")
  /\ task[t].kind = "url"
  /\ LET c == task[t].chat IN
     IF Joined(c)
       THEN /\ dl' = CleanDownloads(dl)
            /\ task' = [task EXCEPT ![t].pc = "fetching",
                                    ![t].obj = group_calls[c].obj,
                                    ![t].snap = [raw |-> raw[c],
                                                 input |-> group_calls[c].input,
                                                 dl |-> dl]]
            /\ busy' = t
            /\ ev' = NoEv
       ELSE /\ task' = [task EXCEPT ![t] = Free]
            /\ ev' = Event("play", c, task[t].cmd, "rejected", NoSnap, 0)
            /\ UNCHANGED <<dl, busy>>
  /\ UNCHANGED <<group_calls, raw, attFiles, issued>>
  /\ UNCHANGED <<bot, disc, web>>

\* The yt-dlp run ends.  outcome: extract_info returned and ytdl_out.mp3 was
\* written, it returned and wrote no such file, or it raised (and may leave
\* what it had written).  download_audio returns the path if the file exists,
\* and convert_audio begins; else it returns None and play_audio False.
FetchDone(t) ==
  /\ busy = t
  /\ task[t].pc = "fetching"
  /\ LET c == task[t].chat
         n == task[t].cmd IN
     \E outcome \in {"written", "nothing", "raised"} :
       LET found == IF outcome = "written" THEN n ELSE dl IN
       IF outcome # "raised" /\ found # 0
         THEN /\ dl' = found
              /\ raw' = [raw EXCEPT ![c] = ConvertStart(c, n)]
              /\ task' = [task EXCEPT ![t].pc = "transcoding"]
              /\ ev' = NoEv
              /\ UNCHANGED busy
         ELSE /\ task' = [task EXCEPT ![t] = Free]
              /\ busy' = 0
              /\ ev' = Event("play", c, n, OnException("fetch_failed"), task[t].snap,
                             group_calls[c].input)
              /\ \E left \in {dl, IF outcome = "raised" THEN n ELSE dl} : dl' = left
              /\ UNCHANGED raw
  /\ UNCHANGED <<group_calls, attFiles, issued>>
  /\ UNCHANGED <<bot, disc, web>>

\* "raw_file = await self.convert_audio(...)" and
\* "self.group_calls[chat_id].input_filename = raw_file": the call object
\* after the transcode of play n ended; an exception of convert_audio skips
\* the assignment.
InputAfterAlways(call, n, ok) == [call EXCEPT !.input = n, !.ctl = "none"]

InputAfter(call, n, ok) ==
  IF ok THEN [call EXCEPT !.input = n, !.ctl = "none"] ELSE call

\* The ffmpeg run ends.  Success: the input file is removed and the artifact
\* is assigned to input_filename.  Failure: the exception passes through
\* convert_audio and the play returns False; what ffmpeg wrote stays, if it
\* wrote anything.
TranscodeDone(t) ==
  /\ busy = t
  /\ task[t].pc = "transcoding"
  /\ LET c == task[t].chat
         n == task[t].cmd IN
     \E ok \in BOOLEAN :
       /\ group_calls' = [group_calls EXCEPT ![c] = InputAfter(@, n, ok)]
       /\ IF ok
            THEN /\ raw' = [raw EXCEPT ![c] = [cmd |-> n, whole |-> TRUE]]
                 /\ dl' = IF task[t].kind = "url" THEN 0 ELSE dl
                 /\ attFiles' = IF task[t].kind = "file" THEN attFiles \ {n}
                                                         ELSE attFiles
                 /\ ev' = Event("play", c, n, "ok", task[t].snap, group_calls[c].input)
            ELSE /\ \E left \in {NoFile, ConvertStart(c, n)} :
                      raw' = [raw EXCEPT ![c] = left]
                 /\ ev' = Event("play", c, n, OnException("transcode_failed"),
                                task[t].snap, group_calls[c].input)
                 /\ UNCHANGED <<dl, attFiles>>
  /\ task' = [task EXCEPT ![t] = Free]
  /\ busy' = 0
  /\ UNCHANGED issued
  /\ UNCHANGED <<bot, disc, web>>

\* ------------------------------------------------------ playout control
\* stop_audio, pause_audio, resume_audio, replay_audio, mute_audio and
\* unmute_audio have one shape: if the chat is in group_calls the transport
\* call is made and True returned (False if it raises), else False.  after is
\* the call object once the transport call has returned.
Control(op, c, after) ==
  /\ CanReceive
  /\ issued' = issued + 1
  /\ IF Joined(c)
       THEN \E ok \in BOOLEAN :
              /\ group_calls' = IF ok THEN [group_calls EXCEPT ![c] = after]
                                      ELSE group_calls
              /\ ev' = Event(op, c, issued + 1,
                             IF ok THEN "ok" ELSE OnException("fail"),
                             NoSnap, group_calls[c].input)
       ELSE /\ ev' = Event(op, c, issued + 1, "notjoined", NoSnap, 0)
            /\ UNCHANGED group_calls
  /\ UNCHANGED <<raw, dl, attFiles, task, busy>>
  /\ UNCHANGED <<bot, disc, web>>

\* The transport call of a control command was made (it returned or raised).
TransportCalled(e) == e.res \in {"ok", "fail"}

StopAudio(c) == Control("stop", c, [group_calls[c] EXCEPT !.ctl = "stop"])

PauseAudio(c) == Control("pause", c, [group_calls[c] EXCEPT !.ctl = "pause"])

ResumeAudio(c) == Control("resume", c, [group_calls[c] EXCEPT !.ctl = "resume"])

ReplayAudio(c) == Control("replay", c, [group_calls[c] EXCEPT !.ctl = "restart"])

\* set_is_mute(True) and set_is_mute(False) on a call object.
SetMuteToggles(call, flag) == [call EXCEPT !.mute = ~@]

SetMute(call, flag) == [call EXCEPT !.mute = flag]

MuteAudio(c) == Control("mute", c, SetMute(group_calls[c], TRUE))

UnmuteAudio(c) == Control("unmute", c, SetMute(group_calls[c], FALSE))

\* ------------------------------------------------------------ status
\* get_status: both flags are membership in group_calls.
GetStatusStarted(c) ==
  [connected |-> group_calls[c].started, chat_id |-> c, has_group_call |-> Joined(c)]

GetStatus(c) ==
  [connected |-> Joined(c), chat_id |-> c, has_group_call |-> Joined(c)]

\* status_handler: get_status, then the reply.
Status(c) ==
  /\ CanReceive
  /\ issued' = issued + 1
  /\ LET s == GetStatus(c) IN
     ev' = Event("status", s.chat_id, issued + 1,
                 IF s.connected /\ s.has_group_call THEN "connected"
                 ELSE IF ~s.connected /\ ~s.has_group_call THEN "notconnected"
                 ELSE "mixed",
                 NoSnap, 0)
  /\ UNCHANGED <<group_calls, raw, dl, attFiles, task, busy>>
  /\ UNCHANGED <<bot, disc, web>>

\* ------------------------------------------------------------ recognize
\* "result = list(recog)": recognizeSong() is a generator that yields one
\* (offset, response) pair per signature of the audio, each the answer to one
\* recognition request; list() asks for every one of them.
RecognizeRequests(sigs) == sigs

\* shazam_handler.  It reads and writes nothing the other handlers use, so
\* its awaits (the reply, the download into memory, the messages) are not
\* split off.  audio: the message replies to an audio file; sigs: the number
\* of signatures the audio has; outcome: what the recognition service did.
ShazamHandler(c) ==
  /\ CanReceive
  /\ issued' = issued + 1
  /\ \E audio \in BOOLEAN, sigs \in 0..MaxSigs,
        outcome \in {"match", "nomatch", "raised"} :
       /\ outcome = "match" => sigs >= 1
       /\ ~audio => (sigs = 0 /\ outcome = "nomatch")
       /\ ev' = IF audio
                  THEN Event("recognize", c, issued + 1,
                             IF outcome = "match" THEN "ok"
                             ELSE IF outcome = "nomatch" THEN "absent"
                             ELSE OnException("absent"),
                             NoSnap, RecognizeRequests(sigs))
                  ELSE Event("recognize", c, issued + 1, "noaudio", NoSnap, 0)
  /\ UNCHANGED <<group_calls, raw, dl, attFiles, task, busy>>
  /\ UNCHANGED <<bot, disc, web>>

\* --------------------------------------------------------- disconnect
\* "list(self.music.group_calls.keys())": the chats of the registry S in the
\* order of the dict, which is the order in which their entries were created.
RECURSIVE InsertionOrder(_)
InsertionOrder(S) ==
  IF S = {} THEN <<>>
  ELSE LET c == CHOOSE x \in S :
                  \A y \in S : group_calls[x].obj <= group_calls[y].obj
       IN <<c>> \o InsertionOrder(S \ {c})

\* leave_voice_chat returns False at once, without an await, for a chat that
\* is not in the registry g: the keys at which the loop next suspends.
RECURSIVE SkipAbsent(_, _)
SkipAbsent(g, ks) ==
  IF ks = <<>> THEN <<>>
  ELSE IF g[Head(ks)] # NoCall THEN ks
  ELSE SkipAbsent(g, Tail(ks))

\* disconnect() has returned: the event, and the rest of api_logout
\* (is_authenticated = False, me = None).
DisconnectReturns(found, allok, conn) ==
  /\ disc' = NoDisc
  /\ bot' = [bot EXCEPT !.connected = conn, !.authenticated = FALSE]
  /\ ev' = [NoEv EXCEPT !.op = "disconnect", !.prev = found,
                        !.res = IF allok THEN "ok" ELSE OnException("fail")]

\* The loop of disconnect() from the registry g and the keys ks up to its next
\* await: the stop() of the next chat that is in the registry, or, the keys
\* used up, client.disconnect() if the client is connected.
DisconnectLoop(g, ks, found, allok) ==
  LET rest == SkipAbsent(g, ks) IN
  IF rest # <<>>
    THEN /\ group_calls' = [g EXCEPT ![Head(rest)].stops = @ + 1]
         /\ disc' = [pc |-> "stopping", keys |-> rest, found |-> found,
                    allok |-> allok]
         /\ ev' = NoEv
         /\ UNCHANGED bot
    ELSE /\ group_calls' = g
         /\ IF bot.client /\ bot.connected
              THEN /\ disc' = [pc |-> "closing", keys |-> <<>>, found |-> found,
                              allok |-> allok]
                   /\ ev' = NoEv
                   /\ UNCHANGED bot
              ELSE DisconnectReturns(found, allok, bot.connected)

\* The stop() awaited by leave_voice_chat in the loop returns or raises; then
\* the del and the removal of the artifact, and the loop goes on.
DisconnectStopped ==
  /\ busy = 0
  /\ disc.pc = "stopping"
  /\ LET c == Head(disc.keys) IN
     \E ok \in BOOLEAN :
       IF ok /\ group_calls[c] # NoCall
         THEN /\ raw' = [raw EXCEPT ![c] = NoFile]
              /\ DisconnectLoop([group_calls EXCEPT ![c] = NoCall],
                                Tail(disc.keys), disc.found, disc.allok)
         ELSE /\ UNCHANGED raw
              /\ DisconnectLoop(group_calls, Tail(disc.keys), disc.found, FALSE)
  /\ UNCHANGED <<dl, attFiles, task, busy, issued, web>>

\* client.disconnect() returns or raises, and disconnect() returns.
DisconnectClosed ==
  /\ busy = 0
  /\ disc.pc = "closing"
  /\ \E ok \in BOOLEAN :
       DisconnectReturns(disc.found, disc.allok,
                         IF ok THEN FALSE ELSE bot.connected)
  /\ UNCHANGED <<group_calls, raw, dl, attFiles, task, busy, issued, web>>

\* ------------------------------------------------------------- web API
AuthSecret == "s3cr3t"

\* The header of an authorized request.
Bearer == [present |-> TRUE, value |-> "Bearer " \o AuthSecret]

Headers ==
  {NoHeader, Bearer} \cup
  {[present |-> TRUE, value |-> v] :
     v \in {AuthSecret, "Bearer " \o "s3cr3", "bearer " \o AuthSecret,
            "Bearer " \o AuthSecret \o " "}}

ProtectedRoutes == {"user_status", "init", "send_code", "verify_code",
                    "status", "logout"}

PublicRoutes == {"healthz"}

\* _check_auth
CheckAuthAnyHeader(hdr) == hdr.present

CheckAuth(hdr) == hdr.present /\ hdr.value = "Bearer " \o AuthSecret

\* api_init: initialize() saves the credentials and replaces self.client by a
\* new client, not connected and without handlers.  valid: the body holds an
\* api_id that is a number and an api_hash.
ApiInit ==
  /\ \E valid \in BOOLEAN :
       bot' = IF valid
                THEN [bot EXCEPT !.client = TRUE, !.connected = FALSE,
                                 !.handlers = 0]
                ELSE bot
  /\ ev' = NoEv
  /\ UNCHANGED <<group_calls, disc>>

\* api_send_code with send_code: connect if needed, then send_code_request;
\* pending_code_hash is set when it returns.
ApiSendCode ==
  /\ \E outcome \in {"nophone", "noconnect", "nosend", "sent"} :
       bot' = IF ~bot.client \/ outcome \in {"nophone", "noconnect"} THEN bot
              ELSE IF outcome = "nosend" THEN [bot EXCEPT !.connected = TRUE]
              ELSE [bot EXCEPT !.connected = TRUE, !.pending = TRUE]
  /\ ev' = NoEv
  /\ UNCHANGED <<group_calls, disc>>

\* verify_code after its last await: is_authenticated, a new MusicManager
\* (whose group_calls is empty) and _setup_handlers() once more.
Authenticate(b) ==
  [b EXCEPT !.connected = TRUE, !.authenticated = TRUE, !.handlers = @ + 1,
            !.logins = @ + 1]

\* api_verify_code with verify_code: connect if needed; without a pending
\* code hash nothing more; else sign_in and get_me, which return or raise.
\* The sign-in is followed while no chat command and no disconnect() is in
\* progress.
ApiVerifyCode ==
  /\ \E outcome \in {"nocode", "noconnect", "refused", "signedin"} :
       IF ~bot.client \/ outcome \in {"nocode", "noconnect"}
         THEN UNCHANGED <<bot, group_calls>>
         ELSE IF ~bot.pending \/ outcome = "refused"
           THEN /\ bot' = [bot EXCEPT !.connected = TRUE]
                /\ UNCHANGED group_calls
           ELSE /\ bot.logins < MaxSetups
                /\ \A t \in Tasks : task[t] = Free
                /\ disc = NoDisc
                /\ bot' = Authenticate(bot)
                /\ group_calls' = [c \in Chats |-> NoCall]
  /\ ev' = NoEv
  /\ UNCHANGED disc

\* api_status and api_get_user_status read the state.
ApiStatus ==
  /\ ev' = NoEv
  /\ UNCHANGED <<group_calls, bot, disc>>

\* api_logout: disconnect() up to its first await.  A logout is followed
\* while the userbot is authenticated and no other disconnect() is in
\* progress.
ApiLogout ==
  /\ bot.authenticated
  /\ disc = NoDisc
  /\ LET keys == InsertionOrder({c \in Chats : group_calls[c] # NoCall}) IN
     DisconnectLoop(group_calls, keys, Len(keys), TRUE)

\* A request to the web API: the wrapper of _require_auth answers 401 to a
\* request to a protected route that _check_auth refuses, and calls the
\* handler otherwise.
WebRequest(route, hdr) ==
  /\ busy = 0
  /\ IF route \in ProtectedRoutes /\ ~CheckAuth(hdr)
       THEN /\ web' = [route |-> route, hdr |-> hdr, status |-> 401,
                    turn |-> 1 - web.turn]
            /\ ev' = NoEv
            /\ UNCHANGED <<group_calls, bot, disc>>
       ELSE /\ web' = [route |-> route, hdr |-> hdr, status |-> 200,
                    turn |-> 1 - web.turn]
            /\ CASE route = "init" -> ApiInit
                 [] route = "send_code" -> ApiSendCode
                 [] route = "verify_code" -> ApiVerifyCode
                 [] route = "logout" -> ApiLogout
                 [] OTHER -> ApiStatus
  /\ UNCHANGED <<raw, dl, attFiles, task, busy, issued>>

\* ------------------------------------------------------------ dispatch
\* The client calls, for an incoming message, every registered callback whose
\* pattern matches: one per _setup_handlers() call for each command.
HandlerInvocations == bot.handlers

\* A command message arrives.
MessageArrives(c) ==
  /\ busy = 0
  /\ bot.connected
  /\ bot.handlers >= 1
  /\ ev' = [NoEv EXCEPT !.op = "message", !.chat = c, !.prev = HandlerInvocations]
  /\ UNCHANGED <<group_calls, raw, dl, attFiles, task, busy, issued, bot, disc, web>>

\* ------------------------------------------------------------- the system
\* The commands of the chats C: join, leave and play.
JoinStep(C) ==
  \/ \E c \in C : JoinBegin(c)
  \/ \E t \in Tasks : JoinStarted(t)

LeaveStep(C) ==
  \/ \E c \in C : LeaveBegin(c)
  \/ \E t \in Tasks : LeaveStopped(t)

PlayStep(C) ==
  \/ \E c \in C : PlayBegin(c)
  \/ \E t \in Tasks : PlayCheck(t)
  \/ \E t \in Tasks : PlayDownloadStart(t)
  \/ \E t \in Tasks : PlayDownloadDone(t)
  \/ \E t \in Tasks : PlayFromFile(t)
  \/ \E t \in Tasks : PlayAudio(t)
  \/ \E t \in Tasks : FetchDone(t)
  \/ \E t \in Tasks : TranscodeDone(t)

SessionStep(C) == JoinStep(C) \/ LeaveStep(C) \/ PlayStep(C)

\* The play of a URL.
UrlPlayStep(C) ==
  \/ \E c \in C : PlayBeginOf(c, {"url"})
  \/ \E t \in Tasks : PlayAudio(t)
  \/ \E t \in Tasks : FetchDone(t)
  \/ \E t \in Tasks : TranscodeDone(t)

PlayoutStep(C) ==
  \/ \E c \in C : StopAudio(c)
  \/ \E c \in C : PauseAudio(c)
  \/ \E c \in C : ResumeAudio(c)
  \/ \E c \in C : ReplayAudio(c)

MuteStep(C) ==
  \/ \E c \in C : MuteAudio(c)
  \/ \E c \in C : UnmuteAudio(c)

StatusStep(C) == \E c \in C : Status(c)

ShazamStep(C) == \E c \in C : ShazamHandler(c)

\* The chat commands of a userbot that stays logged in.  The web API, the
\* disconnect and the dispatch to re-registered handlers are the steps of
\* SpecLogout, SpecLogin and SpecWeb below.
Next ==
  \/ SessionStep(Chats)
  \/ PlayoutStep(Chats)
  \/ MuteStep(Chats)
  \/ StatusStep(Chats)
  \/ ShazamStep(Chats)

Spec == Init /\ [][Next]_vars

\* The same handlers with the commands addressed to the chats 1..NumSolo:
\* the specifications of the claims that are about one chat.
SoloChats == 1..NumSolo

\* join, leave and play
SpecSession == Init /\ [][SessionStep(SoloChats)]_vars

\* join, leave, play, mute and unmute
SpecMute == Init /\ [][SessionStep(SoloChats) \/ MuteStep(SoloChats)]_vars

\* join, leave, play and status
SpecStatus == Init /\ [][SessionStep(SoloChats) \/ StatusStep(SoloChats)]_vars

\* every command operation of MusicManager
SpecOps ==
  Init /\ [][\/ SessionStep(SoloChats)
             \/ PlayoutStep(SoloChats)
             \/ MuteStep(SoloChats)
             \/ ShazamStep(SoloChats)]_vars

\* The steps of a disconnect() in progress.
DisconnectStep ==
  \/ DisconnectStopped
  \/ DisconnectClosed

\* The requests of the web API to a route of R with a header of H.
WebStep(R, H) == \E route \in R, hdr \in H : WebRequest(route, hdr)

MessageStep(C) == \E c \in C : MessageArrives(c)

\* The chat commands join, leave and play, and a logout by the owner.
SpecLogout ==
  Init /\ [][SessionStep(Chats) \/ WebStep({"logout"}, {Bearer})
                                \/ DisconnectStep]_vars

\* The chat commands join, leave and play, and a login by the owner.
SpecLogin ==
  Init /\ [][SessionStep(SoloChats)
               \/ WebStep({"send_code", "verify_code"}, {Bearer})]_vars

\* The web API and the dispatch of messages, no chat joined.
SpecWeb ==
  Init /\ [][WebStep(ProtectedRoutes \cup PublicRoutes, Headers)
               \/ DisconnectClosed \/ MessageStep(SoloChats)]_vars

\* Every chat has joined, by the commands 1..NumChats in the order of the
\* chats; issued counts the commands received since.
InitJoined ==
  /\ bot = Started
  /\ disc = NoDisc
  /\ web = NoRequest
  /\ group_calls = [c \in Chats |-> [NoCall EXCEPT !.obj = c - 1 - NumChats,
                                                    !.started = TRUE]]
  /\ raw = [c \in Chats |-> NoFile]
  /\ dl = 0
  /\ attFiles = {}
  /\ task = [t \in Tasks |-> Free]
  /\ busy = 0
  /\ issued = 0
  /\ ev = NoEv

\* The plays of URLs in chats that have joined.
SpecPlays == InitJoined /\ [][UrlPlayStep(Chats)]_vars

\* The plays of URLs and the leaves in chats that have joined.
SpecJoinedChats ==
  InitJoined /\ [][UrlPlayStep(Chats) \/ LeaveStep(Chats)]_vars

TypeOK ==
  /\ issued \in 0..MaxCmds
  /\ busy \in 0..MaxTasks
  /\ dl \in 0..MaxCmds
  /\ attFiles \subseteq 1..MaxCmds
  /\ bot.handlers \in 0..(MaxSetups + 1)
  /\ bot.logins \in 0..MaxSetups
  /\ disc.pc \in {"idle", "stopping", "closing"}
  /\ web.status \in {0, 200, 401}

\* ---------------------------------------------------------------- claims

\* C1: when a leave on a chat that held a session has completed, the chat is
\* not in group_calls and its raw artifact file is absent, whether stop()
\* returned or raised.
C1_LeaveAlwaysRemoves ==
  (ev.op = "leave" /\ ev.prev # 0) =>
     (~Joined(ev.chat) /\ raw[ev.chat] = NoFile)

\* C2: after a join of an idle chat whose start() failed, no call object is
\* held for the chat, status reports it as not connected, and a play would be
\* rejected as not joined.
C2_FailedJoinBackToIdle ==
  (ev.op = "join" /\ ev.res = "fail" /\ ev.prev = ev.cmd) =>
     (group_calls[ev.chat] = NoCall /\ ~GetStatus(ev.chat).connected)

\* C3: no attachment download is started by a play for a chat that is not
\* joined, also when a leave ran during the play handler's awaits.
C3_NoDownloadWhenNotJoined ==
  (ev.op = "download" /\ ev.res = "start") => Joined(ev.chat)

\* C4: a play that fails in fetch or transcode leaves the transport input as
\* it was, a previously prepared artifact intact, and no missing or partial
\* artifact referenced as the input.
C4_FailedPlayRollsBack ==
  (ev.op = "play" /\ ev.res \in {"fetch_failed", "transcode_failed"}) =>
     /\ group_calls[ev.chat].input = ev.snap.input
     /\ ev.snap.raw.whole => raw[ev.chat] = ev.snap.raw
     /\ group_calls[ev.chat].input # 0 => raw[ev.chat].whole

\* C5: whenever a chat's input_filename is set, the artifact it names exists
\* and was written to the end by the transcode of the play that set it.  It
\* is stated for the states in which no blocking call is running, which the
\* claim includes.
C5_InputNamesWholeArtifact ==
  \A c \in Chats :
    (busy = 0 /\ Joined(c) /\ group_calls[c].input # 0) =>
       (raw[c].whole /\ raw[c].cmd = group_calls[c].input)

\* C6: the transitions of two commands for one chat never overlap: no command
\* for a chat is inside its awaited transport call or its pipeline while
\* another command for that chat is.
C6_SameChatSerialized ==
  \A c \in Chats :
    Cardinality(TasksAt(c, {"starting", "stopping"} \cup PipelinePcs)) <= 1

\* C7: a play never installs its artifact over the artifact of a play that
\* was issued after it: the later command's artifact is the one that stays.
C7_LaterPlayWins ==
  (ev.op = "play" /\ ev.res = "ok") => ev.cmd > ev.prev

\* C8: at most one play pipeline (from the start of its fetch or attachment
\* download to its hand-off or failure) is in flight for a chat.
C8_OnePipelinePerChat ==
  \A c \in Chats : Cardinality(TasksAt(c, PipelinePcs)) <= 1

\* C9: while the fetch or the transcode of one chat is in progress, a command
\* for another chat can start, and a suspended command of another chat can
\* go on.
C9_OtherChatsProceed ==
  \A t \in Tasks :
    task[t].pc \in {"fetching", "transcoding"} =>
      /\ (issued < MaxCmds /\ HasFreeSlot) =>
            \A d \in Chats \ {task[t].chat} : ENABLED JoinBegin(d)
      /\ \A u \in Tasks :
            (task[u].pc = "starting" /\ task[u].chat # task[t].chat) =>
               ENABLED JoinStarted(u)

\* C10: a chat has an entry in group_calls if and only if its session state
\* is Active, Preparing, Playing or Paused: none while it is Idle, Joining or
\* Leaving.
C10_HandleIffJoinedState ==
  \A c \in Chats :
    Joined(c) <=> SessionState(c) \in {"Active", "Preparing", "Playing", "Paused"}

\* C11: a play that was in flight when a leave removed its chat leaves no
\* downloaded file behind: when such a play ends (rejected by
\* play_from_file), the attachment it downloaded is gone.
C11_StoppedPlayLeavesNoFile ==
  (ev.op = "play" /\ ev.res = "rejected") => ev.cmd \notin attFiles

\* C12: a replay on a chat with no prepared artifact fails and makes no
\* transport call; here for a chat that is joined and has played nothing
\* (on a chat that is not in group_calls replay_audio does return False).
C12_ReplayNeedsArtifact ==
  (ev.op = "replay" /\ ev.prev = 0 /\ ev.st = "Active") =>
     (~TransportCalled(ev) /\ ev.res # "ok")

\* C13: a stop on a chat that is joined but plays nothing (Active) is
\* reported as a failure and makes no stop_playout call.
C13_StopOnlyWhenPlaying ==
  (ev.op = "stop" /\ ev.st = "Active") => (~TransportCalled(ev) /\ ev.res # "ok")

\* C14: pause succeeds only from Playing and resume only from Paused; here
\* for the settled states: no pause succeeds in Active or Paused, no resume
\* in Active or Playing.
C14_PauseResumeGuarded ==
  /\ (ev.op = "pause" /\ ev.st \in {"Active", "Paused"}) => ev.res # "ok"
  /\ (ev.op = "resume" /\ ev.st \in {"Active", "Playing"}) => ev.res # "ok"

\* C15: every command operation of MusicManager ends with a return value,
\* also when an adapter raised; and after a failure the event loop is free,
\* the command holds no task, and join, leave and play for that chat can be
\* received as before.
ManagerOps == {"join", "leave", "play", "stop", "pause", "resume", "replay",
               "mute", "unmute", "recognize"}

ReturnValues == {"ok", "fail", "keyerror", "fetch_failed", "transcode_failed",
                 "rejected", "notjoined", "absent", "noaudio", "error"}

Failures == {"fail", "keyerror", "fetch_failed", "transcode_failed", "absent"}

C15_NoExceptionEscapes ==
  ev.op \in ManagerOps =>
    /\ ev.res \in ReturnValues
    /\ ev.res \in Failures =>
         /\ busy = 0
         /\ \A t \in Tasks : task[t].cmd # ev.cmd
         /\ (issued < MaxCmds /\ HasFreeSlot) =>
              /\ ENABLED JoinBegin(ev.chat)
              /\ ENABLED LeaveBegin(ev.chat)
              /\ ENABLED PlayBegin(ev.chat)

\* an adapter raised inside a play and the play returned False
C15_Witness == ev.op = "play" /\ ev.res = "transcode_failed"

\* C16: group_calls holds one call object per chat id, and while a chat stays
\* in group_calls its call object is never replaced: a join on a chat that
\* has one reuses it.
C16_OneSessionReused ==
  [][\A c \in Chats :
       (Joined(c) /\ group_calls'[c] # NoCall) =>
          group_calls'[c].obj = group_calls[c].obj]_vars

\* a join found the call object of an earlier join and awaits start() on it
C16_Witness ==
  \E t \in Tasks : task[t].op = "join" /\ task[t].obj # task[t].cmd

\* C17: stop() is called at most once on the call object of a joined chat,
\* however many leave commands arrive.
C17_StopCalledOnce ==
  \A c \in Chats : group_calls[c].started => group_calls[c].stops <= 1

\* C18: a mute that returns True leaves the flag true, an unmute false, and
\* neither changes anything else of the call object or the session state: a
\* repeated mute (unmute) leaves the state as the first one left it.
C18_MuteIdempotent ==
  [][\A c \in Chats :
       (ev'.op \in {"mute", "unmute"} /\ ev'.res = "ok" /\ ev'.chat = c) =>
          /\ group_calls' = [group_calls EXCEPT ![c].mute = (ev'.op = "mute")]
          /\ SessionState(c)' = SessionState(c)]_vars

\* a mute in Playing returned True and the flag is set
C18_Witness ==
  /\ ev.op = "mute" /\ ev.res = "ok" /\ ev.st = "Playing"
  /\ group_calls[ev.chat].mute

\* C19: a recognize command makes at most one recognition request, and none
\* when the message replies to no audio file.
C19_AtMostOneAttempt ==
  ev.op = "recognize" =>
    /\ ev.prev <= 1
    /\ ev.res = "noaudio" => ev.prev = 0

\* C20: a status query reports connected and has_group_call both true
\* exactly when the chat is in group_calls, and changes nothing.
C20_StatusReadsRegistry ==
  [][ev'.op = "status" =>
       /\ ev'.res = IF Joined(ev'.chat) THEN "connected" ELSE "notconnected"
       /\ UNCHANGED <<group_calls, raw, dl, attFiles, task, busy>>]_vars

\* a status query on a chat in group_calls reported it as connected
C20_Witness == ev.op = "status" /\ ev.res = "connected" /\ Joined(ev.chat)

\* C21: the transport input of a chat is assigned only by the step in which
\* the transcode of a play ends well, to that play's whole artifact, made from
\* that play's own download or attachment; and a play returns True if and only
\* if that step assigned its artifact, which was not the input before.
C21_InputSetOnSuccess ==
  [][\A c \in Chats :
       /\ (group_calls'[c] # NoCall /\ group_calls'[c].input # group_calls[c].input) =>
            /\ ev'.op = "play" /\ ev'.res = "ok" /\ ev'.chat = c
            /\ ev'.cmd = group_calls'[c].input
            /\ raw'[c] = [cmd |-> ev'.cmd, whole |-> TRUE]
            /\ \E t \in Tasks :
                 /\ busy = t /\ task[t].pc = "transcoding" /\ task[t].cmd = ev'.cmd
                 /\ task[t].kind = "url" => dl = ev'.cmd
                 /\ task[t].kind = "file" => ev'.cmd \in attFiles
       /\ (ev'.op = "play" /\ ev'.chat = c) =>
            (ev'.res = "ok" <=> /\ group_calls'[c].input = ev'.cmd
                                /\ group_calls[c].input # ev'.cmd)]_vars

C21_Witness ==
  /\ ev.op = "play" /\ ev.res = "ok" /\ ev.prev # 0
  /\ group_calls[ev.chat].input = ev.cmd

\* C22: when the retrieval of a fetch begins no download output is left; the
\* file a fetch hands to the transcode was written by that fetch; a fetch
\* after which no file of its own exists ends the play as failed.
C22_FetchStartsClean ==
  [][\A t \in Tasks :
       /\ (task'[t].pc = "fetching") => dl' = 0
       /\ (task[t].pc = "fetching" /\ task'[t].pc = "transcoding") => dl' = task[t].cmd
       /\ (task[t].pc = "fetching" /\ task'[t].pc # "fetching" /\ dl' # task[t].cmd) =>
            (ev'.op = "play" /\ ev'.cmd = task[t].cmd /\ ev'.res = "fetch_failed")]_vars

C22_Witness ==
  /\ ev.op = "play" /\ ev.res = "ok"
  /\ ev.snap.dl # 0 /\ ev.snap.dl # ev.cmd

\* C23: while a transcode runs, the artifact of the chat is the one being
\* written, the earlier one removed; after a play that returned True the
\* chat's artifact is the whole artifact of that play and neither the
\* download nor the attachment of that play exists.
C23_TranscodeReplacesAndCleans ==
  /\ \A t \in Tasks :
       task[t].pc = "transcoding" =>
         raw[task[t].chat] = [cmd |-> task[t].cmd, whole |-> FALSE]
  /\ (ev.op = "play" /\ ev.res = "ok") =>
       /\ raw[ev.chat] = [cmd |-> ev.cmd, whole |-> TRUE]
       /\ dl # ev.cmd
       /\ ev.cmd \notin attFiles

C23_Witness ==
  /\ ev.op = "play" /\ ev.res = "ok"
  /\ ev.snap.raw # NoFile /\ ev.snap.raw.cmd # ev.cmd

\* C24: when join_voice_chat returns True the chat is in group_calls and its
\* entry is the call object that was started.
C24_JoinSuccessMeansRegistered ==
  (ev.op = "join" /\ ev.res = "ok") =>
     /\ Joined(ev.chat)
     /\ group_calls[ev.chat].obj = ev.prev
     /\ group_calls[ev.chat].started

\* C25: from the joined check of a play to the end of its pipeline only that
\* play takes steps: no command is received, no other handler moves, no entry
\* of group_calls is created or removed; and the call object whose input is
\* assigned is the one the check found.
C25_PlayAtomic ==
  [][\A t \in Tasks :
       busy = t =>
         /\ issued' = issued
         /\ \A u \in Tasks \ {t} : task'[u] = task[u]
         /\ \A c \in Chats : group_calls'[c].obj = group_calls[c].obj
         /\ UNCHANGED <<bot, disc, web>>
         /\ (ev'.op = "play" /\ ev'.res = "ok") =>
              /\ ev'.cmd = task[t].cmd
              /\ group_calls'[ev'.chat].obj = task[t].obj
              /\ group_calls'[ev'.chat].input = task[t].cmd]_vars

C25_Witness ==
  /\ busy # 0
  /\ task[busy].pc = "transcoding"
  /\ \E u \in Tasks : task[u].pc = "stopping"
                      /\ task[u].chat # task[busy].chat

\* C26: while the play of a URL transcodes, ytdl_out.mp3 is the file that
\* play fetched, and no other play is fetching or transcoding; a play that
\* returned True for a URL leaves no download behind.
C26_OwnDownloadTranscoded ==
  \A t \in Tasks :
    /\ (task[t].pc = "transcoding" /\ task[t].kind = "url") => dl = task[t].cmd
    /\ task[t].pc \in {"fetching", "transcoding"} =>
         /\ busy = t
         /\ \A u \in Tasks \ {t} : task[u].pc \notin {"fetching", "transcoding"}

C26_Witness ==
  /\ busy # 0
  /\ task[busy].pc = "transcoding" /\ task[busy].kind = "url"
  /\ \E c \in Chats : /\ c # task[busy].chat
                      /\ raw[c].whole
                      /\ group_calls[c].input = raw[c].cmd

\* C27: while no blocking call holds the event loop, a chat's raw artifact
\* exists only if the chat is in group_calls.
C27_ArtifactOnlyIfRegistered ==
  busy = 0 => \A c \in Chats : raw[c] # NoFile => Joined(c)

\* C28: a command message is processed by exactly one handler invocation.
C28_HandledOnce == ev.op = "message" => ev.prev = 1

\* C29: when disconnect() returns, group_calls is empty and no raw artifact
\* is left; here for a disconnect() that found a chat to leave and in which
\* no stop() raised.
C29_DisconnectLeavesAll ==
  (ev.op = "disconnect" /\ ev.res = "ok" /\ ev.prev >= 1) =>
     \A c \in Chats : ~Joined(c) /\ raw[c] = NoFile

\* C30: a request to a protected route is answered 200 if its Authorization
\* header is exactly "Bearer <auth_secret>" and 401 otherwise; a request
\* answered 401 changes nothing of the userbot, and a request that changes
\* the userbot carries that header.
C30_ProtectedNeedsBearer ==
  [][web' # web =>
       /\ web'.route \in ProtectedRoutes =>
            web'.status = IF web'.hdr.present /\ web'.hdr.value = "Bearer s3cr3t"
                            THEN 200 ELSE 401
       /\ web'.status = 401 =>
            UNCHANGED <<bot, disc, group_calls, raw, dl, attFiles, task, busy, issued>>
       /\ ~UNCHANGED <<bot, disc, group_calls>> =>
            (web'.hdr.present /\ web'.hdr.value = "Bearer s3cr3t")]_vars

C30_Witness ==
  /\ web.route = "logout" /\ web.status = 401
  /\ web.hdr = [present |-> TRUE, value |-> "Bearer s3cr3t "]
  /\ bot.authenticated

====
